---- MODULE Spec2Model ----
(***************************************************************************)
(* Churn_App backend: the Trainer (train_model.py), the Server (app.py)     *)
(* and the three files they share: Telco_Cust_Churn.csv, model.pkl and      *)
(* metrics.json.                                                            *)
(*                                                                          *)
(* Numbers.  A held-out AUC or accuracy is an integer count of              *)
(* half-thousandths (1 = 0.0005), so that round(x, 3) is a real conversion. *)
(* A churn rate is the pair (sum of the labels, number of labels) that      *)
(* pandas' mean divides; a pair with n = 0 is NaN.                          *)
(* An optional value (Python None, JSON null, a missing key) is the empty   *)
(* sequence; a present value x is <<x>>.                                    *)
(***************************************************************************)
EXTENDS Integers, Sequences, FiniteSets, TLC

\* ---------------------------------------------------------------- bounds
MaxAuc == 1
MaxRows == 2
MaxBatch == 1

\* ------------------------------------------------------------- constants
None == <<>>
Some(x) == <<x>>

\* train_model.py: the candidate families, in the dict's insertion order.
ModelNames == <<"Logistic Regression", "Random Forest", "XGBoost">>

\* best_auc = -1 before the loop.
InitialBestAuc == -1

\* The values roc_auc_score can return (half-thousandths).
AucValues == 0..MaxAuc

\* The value accuracy_score returns; no branch of the script reads it.
AccValues == {3}

\* round(x, 3): half-thousandths to thousandths.
Round3(x) == (x + 1) \div 2

\* The feature-importance mapping a family's extraction can leave behind:
\* {} when the try block raised or the classifier exposes neither attribute,
\* else the top-20 mapping of that family.
FeatureImportances(name) == {<<>>, [f \in {"tenure"} |-> 1]}

\* A fitted pipeline, as pickled: the family it was fitted for and who
\* fitted it ("run": the Trainer run of this behaviour, "prior": an earlier one).
Pipeline(name, origin) == [family |-> name, origin |-> origin]

\* A file: absent, truncated (opened for writing, content not yet complete),
\* or complete with its content.
Absent == [state |-> "absent", content |-> None]
Partial == [state |-> "partial", content |-> None]
File(c) == [state |-> "ok", content |-> Some(c)]

\* One family's entry of the metrics dict.
Entry(auc, acc, fi) ==
  [auc |-> Some(Round3(auc)), accuracy |-> Some(Round3(acc)), feature_importance |-> fi]

\* The metrics dict: the family entries and the "current_model" key.
EmptyMetrics == [entries |-> <<>>, current_model |-> None]

VARIABLES
  csvExists,       \* Telco_Cust_Churn.csv exists
  csvRows,         \* its data rows
  modelFile,       \* model.pkl
  metricsFile,     \* metrics.json
  modelFile0,      \* model.pkl and metrics.json as the Trainer run found them
  metricsFile0,
  tpc,             \* Trainer: position in the script
  idx,             \* Trainer: index of the next family of the loop
  metrics,         \* Trainer: metrics
  best_model,      \* Trainer: best_model
  best_model_name, \* Trainer: best_model_name
  best_auc,        \* Trainer: best_auc
  aucs,            \* Trainer: the auc computed by each iteration so far
  texit,           \* Trainer: exit status, once exited
  spc,             \* Server: "down", "failed" (import raised) or "running"
  model,           \* Server: model, the pipeline joblib.load returned
  df,              \* Server: df, the process-wide dataframe
  metricsAtStart,  \* metrics.json as it was when the Server started
  lastOp,          \* Server: the endpoint that answered last
  lastResp         \* Server: the response it returned

trainerVars == <<tpc, idx, metrics, best_model, best_model_name, best_auc, aucs, texit,
                 modelFile0, metricsFile0>>
fileVars == <<csvExists, csvRows, modelFile, metricsFile>>
serverVars == <<spc, model, df, metricsAtStart, lastOp, lastResp>>
vars == <<csvExists, csvRows, modelFile, metricsFile, modelFile0, metricsFile0,
          tpc, idx, metrics, best_model, best_model_name, best_auc, aucs, texit,
          spc, model, df, metricsAtStart, lastOp, lastResp>>

\* ------------------------------------------------------- pre-existing files
\* What model.pkl can hold before this run: nothing, or an earlier run's pipeline.
PriorModelFiles == {Absent, File(Pipeline(ModelNames[2], "prior"))}

PriorEntry == [auc |-> Some(1), accuracy |-> Some(1), feature_importance |-> <<>>]

\* What metrics.json can hold before this run: nothing; an earlier run's report;
\* a report of another version of the script (a family this script does not
\* train); a report without "current_model"; one whose "current_model" has no entry.
PriorReport ==
  [entries |-> (ModelNames[2] :> PriorEntry), current_model |-> Some(ModelNames[2])]

PriorMetricsFiles ==
  { Absent,
    File(PriorReport),
    File([entries |-> ("SVM" :> PriorEntry), current_model |-> Some("SVM")]),
    File([entries |-> (ModelNames[2] :> PriorEntry), current_model |-> None]),
    File([entries |-> <<>>, current_model |-> Some(ModelNames[2])]) }

\* ------------------------------------------------------------------ Trainer
TrainerInit ==
  /\ tpc = "start"
  /\ idx = 1
  /\ metrics = EmptyMetrics
  /\ best_model = None
  /\ best_model_name = None
  /\ best_auc = InitialBestAuc
  /\ aucs = <<>>
  /\ texit = None
  /\ modelFile0 = modelFile
  /\ metricsFile0 = metricsFile

ImprovesOrTies(auc, best) == auc >= best

\* if auc > best_auc
Improves(auc, best) == auc > best

\* 1. Check dataset: sys.exit(1) when the file is absent.
CheckDataset ==
  /\ tpc = "start"
  /\ IF csvExists
       THEN /\ tpc' = "loop"
            /\ texit' = texit
       ELSE /\ tpc' = "exited"
            /\ texit' = Some(1)
  /\ UNCHANGED <<idx, metrics, best_model, best_model_name, best_auc, aucs,
                 modelFile0, metricsFile0>>
  /\ UNCHANGED fileVars
  /\ UNCHANGED serverVars

\* metrics[name] = {...}
SetEntry(m, name, e) ==
  [m EXCEPT !.entries = [k \in (DOMAIN m.entries) \cup {name} |->
                           IF k = name THEN e ELSE m.entries[k]]]

\* 7. One iteration of the loop that runs to its end: fit, score, extract the
\* feature importance, record the entry, keep the model when it improves.
TrainFamily ==
  /\ tpc = "loop"
  /\ idx <= Len(ModelNames)
  /\ \E auc \in AucValues, acc \in AccValues, fi \in FeatureImportances(ModelNames[idx]) :
       LET name == ModelNames[idx] IN
       /\ metrics' = SetEntry(metrics, name, Entry(auc, acc, fi))
       /\ aucs' = Append(aucs, auc)
       /\ IF Improves(auc, best_auc)
            THEN /\ best_auc' = auc
                 /\ best_model' = Some(Pipeline(name, "run"))
                 /\ best_model_name' = Some(name)
            ELSE UNCHANGED <<best_auc, best_model, best_model_name>>
  /\ idx' = idx + 1
  /\ UNCHANGED <<tpc, texit, modelFile0, metricsFile0>>
  /\ UNCHANGED fileVars
  /\ UNCHANGED serverVars

\* 7. An iteration in which the fit, predict or a metric raises: nothing in
\* the loop is caught outside the feature-importance block, the script dies
\* with the traceback and status 1.
TrainFamilyRaises ==
  /\ tpc = "loop"
  /\ idx <= Len(ModelNames)
  /\ tpc' = "exited"
  /\ texit' = Some(1)
  /\ UNCHANGED <<idx, metrics, best_model, best_model_name, best_auc, aucs,
                 modelFile0, metricsFile0>>
  /\ UNCHANGED fileVars
  /\ UNCHANGED serverVars

\* 8. After the loop: sys.exit(1) without a best model, else joblib.dump opens
\* model.pkl for writing, which truncates it.
SaveBestModel ==
  /\ tpc = "loop"
  /\ idx > Len(ModelNames)
  /\ IF best_model = None
       THEN /\ tpc' = "exited"
            /\ texit' = Some(1)
            /\ UNCHANGED modelFile
       ELSE /\ tpc' = "dump_model"
            /\ texit' = texit
            /\ modelFile' = Partial
  /\ UNCHANGED <<idx, metrics, best_model, best_model_name, best_auc, aucs,
                 modelFile0, metricsFile0>>
  /\ UNCHANGED <<csvExists, csvRows, metricsFile>>
  /\ UNCHANGED serverVars

CurrentModelNotSet(m, name) == m

\* metrics["current_model"] = best_model_name
WithCurrentModel(m, name) == [m EXCEPT !.current_model = name]

\* joblib.dump completes; metrics["current_model"] = best_model_name.
FinishModelDump ==
  /\ tpc = "dump_model"
  /\ modelFile' = File(best_model[1])
  /\ metrics' = WithCurrentModel(metrics, best_model_name)
  /\ tpc' = "open_metrics"
  /\ UNCHANGED <<idx, best_model, best_model_name, best_auc, aucs, texit,
                 modelFile0, metricsFile0>>
  /\ UNCHANGED <<csvExists, csvRows, metricsFile>>
  /\ UNCHANGED serverVars

\* open(METRICS_PATH, "w") truncates metrics.json.
OpenMetrics ==
  /\ tpc = "open_metrics"
  /\ metricsFile' = Partial
  /\ tpc' = "dump_metrics"
  /\ UNCHANGED <<idx, metrics, best_model, best_model_name, best_auc, aucs, texit,
                 modelFile0, metricsFile0>>
  /\ UNCHANGED <<csvExists, csvRows, modelFile>>
  /\ UNCHANGED serverVars

\* A report written over the old one key by key: the old keys survive.
MergedReport(m, old) ==
  IF old.state # "ok"
    THEN File(m)
    ELSE LET o == old.content[1] IN
         File([m EXCEPT !.entries =
                 [k \in (DOMAIN o.entries) \cup (DOMAIN m.entries) |->
                    IF k \in DOMAIN m.entries THEN m.entries[k] ELSE o.entries[k]]])

\* What open(METRICS_PATH, "w") and json.dump(metrics, f) leave in the file
\* once it is closed; old is the file as the run found it.
WrittenReport(m, old) == File(m)

\* json.dump(metrics, f) and the close of the file; the script then ends.
DumpMetrics ==
  /\ tpc = "dump_metrics"
  /\ metricsFile' = WrittenReport(metrics, metricsFile0)
  /\ tpc' = "exited"
  /\ texit' = Some(0)
  /\ UNCHANGED <<idx, metrics, best_model, best_model_name, best_auc, aucs,
                 modelFile0, metricsFile0>>
  /\ UNCHANGED <<csvExists, csvRows, modelFile>>
  /\ UNCHANGED serverVars

Trainer ==
  \/ CheckDataset
  \/ TrainFamily
  \/ TrainFamilyRaises
  \/ SaveBestModel
  \/ FinishModelDump
  \/ OpenMetrics
  \/ DumpMetrics

\* ------------------------------------------------------------------- Server
ServerInit ==
  /\ spc = "down"
  /\ model = None
  /\ df = <<>>
  /\ metricsAtStart = Absent
  /\ lastOp = "none"
  /\ lastResp = [status |-> 0]

\* df["Churn"].map({"Yes": 1, "No": 0}): any other text becomes NaN.
LabelMap(text) ==
  IF text = "Yes" THEN Some(1) ELSE IF text = "No" THEN Some(0) ELSE None

\* pd.read_csv and the label normalisation; the bucket columns do not exist yet.
LoadDataset(rows) ==
  [i \in 1..Len(rows) |->
     [Contract |-> rows[i].Contract, tenure |-> rows[i].tenure,
      MonthlyCharges |-> rows[i].MonthlyCharges, Churn |-> LabelMap(rows[i].Churn),
      TenureBucket |-> None, MonthlyBucket |-> None]]

\* Module level of app.py: FileNotFoundError without model.pkl, joblib.load
\* (which raises on a truncated pickle), FileNotFoundError without the
\* dataset, then the load of the dataset. An exception ends the import.
StartsWithoutDataset(mf, csv) == mf.state = "ok"

\* The import of app.py runs to its end: model.pkl exists and unpickles, and
\* the dataset exists.
ImportSucceeds(mf, csv) == mf.state = "ok" /\ csv

StartServer ==
  /\ spc = "down"
  /\ IF ImportSucceeds(modelFile, csvExists)
       THEN /\ spc' = "running"
            /\ model' = modelFile.content
            /\ df' = LoadDataset(csvRows)
       ELSE /\ spc' = "failed"
            /\ model' = IF modelFile.state = "ok" THEN modelFile.content ELSE model
            /\ df' = df
  /\ metricsAtStart' = metricsFile
  /\ UNCHANGED <<lastOp, lastResp>>
  /\ UNCHANGED fileVars
  /\ UNCHANGED trainerVars

\* Flask routes a request to a handler only once the module was imported.
Serving == spc = "running"

\* The response of a handler that let an exception escape.
InternalError == [status |-> 500]

\* metrics.get("current_model")
CurrentModel(report) == report.current_model

\* health(): the outcome for the state of metrics.json it finds.
HealthResponse(file) ==
  IF file.state = "absent"
    THEN [status |-> 200, body |-> [status |-> "ok", model_loaded |-> TRUE,
                                    active_model |-> None]]
    ELSE IF file.state = "partial"
      THEN InternalError
      ELSE [status |-> 200, body |-> [status |-> "ok", model_loaded |-> TRUE,
                                      active_model |-> CurrentModel(file.content[1])]]

Health ==
  /\ Serving
  /\ lastOp' = "health"
  /\ lastResp' = HealthResponse(metricsFile)
  /\ UNCHANGED <<spc, model, df, metricsAtStart>>
  /\ UNCHANGED fileVars
  /\ UNCHANGED trainerVars

\* feature_importance(): the outcome for the state of metrics.json it finds.
FeatureImportanceResponse(file) ==
  IF file.state = "absent"
    THEN [status |-> 200, body |-> [active_model |-> None, feature_importance |-> <<>>]]
    ELSE IF file.state = "partial"
      THEN InternalError
      ELSE LET report == file.content[1]
               active == CurrentModel(report)
           IN [status |-> 200,
               body |-> [active_model |-> active,
                         feature_importance |->
                           IF active # None /\ active[1] \in DOMAIN report.entries
                             THEN report.entries[active[1]].feature_importance
                             ELSE <<>>]]

FeatureImportance ==
  /\ Serving
  /\ lastOp' = "feature_importance"
  /\ lastResp' = FeatureImportanceResponse(metricsFile)
  /\ UNCHANGED <<spc, model, df, metricsAtStart>>
  /\ UNCHANGED fileVars
  /\ UNCHANGED trainerVars

\* predict(): the loaded pipeline answers, or any exception becomes a 400.
Predict ==
  /\ Serving
  /\ lastOp' = "predict"
  /\ \E conforms \in BOOLEAN :
       lastResp' = IF conforms
                     THEN [status |-> 200, by |-> model[1]]
                     ELSE [status |-> 400, error |-> Some("exception")]
  /\ UNCHANGED <<spc, model, df, metricsAtStart>>
  /\ UNCHANGED fileVars
  /\ UNCHANGED trainerVars

\* An explain() that adds the bucket columns as dashboard() does.
ExplainWithBuckets ==
  /\ Serving
  /\ lastOp' = "explain"
  /\ df' = [i \in 1..Len(df) |->
              [df[i] EXCEPT !.TenureBucket = Some("0-12"), !.MonthlyBucket = Some("0-50")]]
  /\ \E conforms \in BOOLEAN :
       lastResp' = IF conforms
                     THEN [status |-> 200, by |-> model[1]]
                     ELSE [status |-> 400, error |-> Some("exception")]
  /\ UNCHANGED <<spc, model, metricsAtStart>>
  /\ UNCHANGED fileVars
  /\ UNCHANGED trainerVars

\* explain(): transform, SHAP, or any exception becomes a 400. df is not used.
Explain ==
  /\ Serving
  /\ lastOp' = "explain"
  /\ \E conforms \in BOOLEAN :
       lastResp' = IF conforms
                     THEN [status |-> 200, by |-> model[1]]
                     ELSE [status |-> 400, error |-> Some("exception")]
  /\ UNCHANGED <<spc, model, df, metricsAtStart>>
  /\ UNCHANGED fileVars
  /\ UNCHANGED trainerVars

\* ---------------------------------------------------------------- dashboard
tenure_bucket_exclusive(t) ==
  IF t < 12 THEN "0-12" ELSE IF t < 24 THEN "13-24" ELSE "25+"

\* tenure_bucket(t)
tenure_bucket(t) ==
  IF t <= 12 THEN "0-12" ELSE IF t <= 24 THEN "13-24" ELSE "25+"

\* monthly_bucket(m)
monthly_bucket(m) ==
  IF m <= 50 THEN "0-50" ELSE IF m <= 100 THEN "51-100" ELSE "101+"

\* df["TenureBucket"] = df["tenure"].apply(tenure_bucket)
WithTenureBucket(d) ==
  [i \in 1..Len(d) |-> [d[i] EXCEPT !.TenureBucket = Some(tenure_bucket(d[i].tenure))]]

\* df["MonthlyBucket"] = df["MonthlyCharges"].apply(monthly_bucket)
WithMonthlyBucket(d) ==
  [i \in 1..Len(d) |-> [d[i] EXCEPT !.MonthlyBucket = Some(monthly_bucket(d[i].MonthlyCharges))]]

RECURSIVE SumSeq(_)
SumSeq(s) == IF s = <<>> THEN 0 ELSE Head(s)[1] + SumSeq(Tail(s))

\* Series.mean(): NaN labels are skipped; the sum and the count it divides.
Mean(labels) ==
  LET valid == SelectSeq(labels, LAMBDA l : l # None)
  IN [sum |-> SumSeq(valid), n |-> Len(valid)]

\* The value of a grouping column in row r.
KeyOf(r, column) ==
  IF column = "Contract" THEN r.Contract
  ELSE IF column = "TenureBucket" THEN r.TenureBucket[1]
  ELSE r.MonthlyBucket[1]

\* The labels of the rows of d whose key is k, in row order.
LabelsOf(d, column, k) ==
  LET rows == SelectSeq(d, LAMBDA r : KeyOf(r, column) = k)
  IN [i \in 1..Len(rows) |-> rows[i].Churn]

\* df.groupby(column)["Churn"].mean().to_dict()
GroupMean(d, column) ==
  [k \in {KeyOf(d[i], column) : i \in 1..Len(d)} |-> Mean(LabelsOf(d, column, k))]

\* A dashboard() that normalises the label column again on every request.
DashboardFrameRemapped(d) ==
  [i \in 1..Len(d) |-> [d[i] EXCEPT !.TenureBucket = Some(tenure_bucket(d[i].tenure)),
                                    !.MonthlyBucket = Some(monthly_bucket(d[i].MonthlyCharges)),
                                    !.Churn = None]]

\* The dataframe dashboard() leaves behind.
DashboardFrame(d) == WithMonthlyBucket(WithTenureBucket(d))

\* dashboard(): the three groupings, then the metrics report as found.
DashboardResponse(d, file) ==
  IF file.state = "partial"
    THEN InternalError
    ELSE LET report == IF file.state = "absent" THEN EmptyMetrics ELSE file.content[1]
         IN [status |-> 200,
             body |-> [contract |-> GroupMean(d, "Contract"),
                       tenure |-> GroupMean(WithTenureBucket(d), "TenureBucket"),
                       monthly |-> GroupMean(DashboardFrame(d), "MonthlyBucket"),
                       metrics |-> report,
                       active_model |-> CurrentModel(report)]]

Dashboard ==
  /\ Serving
  /\ lastOp' = "dashboard"
  /\ df' = DashboardFrame(df)
  /\ lastResp' = DashboardResponse(df, metricsFile)
  /\ UNCHANGED <<spc, model, metricsAtStart>>
  /\ UNCHANGED fileVars
  /\ UNCHANGED trainerVars

\* ------------------------------------------------------------ batch-predict
\* An upload: no "file" part, or a file of which pd.read_csv sees whether it
\* has a header line, how many data rows, and whether the rows fit the schema.
Uploads ==
  {[part |-> FALSE, header |-> FALSE, rows |-> 0, conforms |-> TRUE]}
    \cup {[part |-> TRUE, header |-> h, rows |-> 0, conforms |-> TRUE] : h \in BOOLEAN}
    \cup {[part |-> TRUE, header |-> TRUE, rows |-> n, conforms |-> c] :
            n \in 1..MaxBatch, c \in BOOLEAN}

\* pd.read_csv(file): EmptyDataError on a file without any column, else the frame.
ReadCsv(u) ==
  IF ~u.header /\ u.rows = 0
    THEN [raised |-> TRUE, message |-> "No columns to parse from file", rows |-> 0]
    ELSE [raised |-> FALSE, message |-> "", rows |-> u.rows]

\* The error response of batch_predict for an upload without data rows.
BadRequest(msg) ==
  [status |-> 400, error |-> Some(msg), predictions |-> None,
   batch_feature_importance |-> None]

\* batch_predict(): the response for upload u, given the predictions of the
\* pipeline and whether SHAP ran through.
BatchResponse(u, preds, shapOk) ==
  IF ~u.part
    THEN BadRequest("No file uploaded")
    ELSE LET frame == ReadCsv(u) IN
         IF frame.raised
           THEN BadRequest(frame.message)
           ELSE IF frame.rows = 0
             THEN BadRequest("Uploaded CSV is empty")
             ELSE IF ~u.conforms
               THEN BadRequest("exception")
               ELSE [status |-> 200, error |-> None, predictions |-> Some(preds),
                     batch_feature_importance |->
                       Some(IF shapOk THEN [f \in {"num__tenure"} |-> 1] ELSE <<>>)]

BatchPredict ==
  /\ Serving
  /\ lastOp' = "batch_predict"
  /\ \E u \in Uploads :
       \* the response, kept with the upload it answers
       IF ~u.part \/ ReadCsv(u).raised \/ ReadCsv(u).rows = 0 \/ ~u.conforms
         THEN lastResp' = BatchResponse(u, <<>>, FALSE) @@ [upload |-> u]
         ELSE \E shapOk \in BOOLEAN, preds \in [1..u.rows -> {0, 1}] :
                lastResp' = BatchResponse(u, preds, shapOk) @@ [upload |-> u]
  /\ UNCHANGED <<spc, model, df, metricsAtStart>>
  /\ UNCHANGED fileVars
  /\ UNCHANGED trainerVars

Server ==
  \/ StartServer
  \/ Health
  \/ Predict
  \/ Dashboard
  \/ FeatureImportance
  \/ Explain
  \/ BatchPredict

\* ------------------------------------------------------------ the data sets
Labels == {"Yes", "No", "Maybe"}

\* The customers a row can describe: (Contract, tenure, MonthlyCharges), with
\* tenure and MonthlyCharges on the edges of the buckets.
Customers ==
  {<<"Month-to-month", 12, 101>>, <<"Two year", 24, 50>>, <<"Two year", 25, 100>>}

CsvRows ==
  {[Contract |-> c[1], tenure |-> c[2], MonthlyCharges |-> c[3], Churn |-> l] :
     c \in Customers, l \in Labels}

\* Every data set of at most MaxRows rows.
Datasets == UNION {[1..n -> CsvRows] : n \in 0..MaxRows}

\* One data set, for the behaviours that are about the artifacts.
SampleRows ==
  << [Contract |-> "Two year", tenure |-> 12, MonthlyCharges |-> 101, Churn |-> "Yes"],
     [Contract |-> "Two year", tenure |-> 25, MonthlyCharges |-> 50, Churn |-> "No"] >>

Init ==
  /\ csvExists \in BOOLEAN
  /\ csvRows = SampleRows
  /\ modelFile \in PriorModelFiles
  /\ metricsFile \in PriorMetricsFiles
  /\ TrainerInit
  /\ ServerInit

Next == Trainer \/ Server

\* The Trainer and the Server over the shared files.
Spec == Init /\ [][Next]_vars

\* The Server alone, over every data set and the files an earlier run, or a
\* run that was killed, can have left.
InitServing ==
  /\ csvExists \in BOOLEAN
  /\ csvRows \in Datasets
  /\ modelFile \in PriorModelFiles \cup {Partial}
  /\ metricsFile \in {Absent, File(PriorReport)}
  /\ TrainerInit
  /\ ServerInit

SpecServing == InitServing /\ [][Server]_vars

\* The Trainer alone.
SpecTrainer == Init /\ [][Trainer]_vars
\* ==================================================================== claims
\* The position of the first greatest element of a non-empty sequence.
FirstMax(s) ==
  CHOOSE i \in 1..Len(s) :
    /\ \A j \in 1..Len(s) : s[j] <= s[i]
    /\ \A j \in 1..(i - 1) : s[j] < s[i]

\* The Trainer ran to its end with status 0.
TrainerSucceeded == tpc = "exited" /\ texit = Some(0)

\* C1: whatever families the loop has processed so far, the selected family is
\* the first, in insertion order, of those with the greatest held-out AUC; the
\* pipeline kept, and the pipeline persisted once the run has succeeded, are
\* that family's.
C1_SelectsFirstHighestAuc ==
  Len(aucs) >= 1 =>
    LET winner == ModelNames[FirstMax(aucs)] IN
    /\ best_model_name = Some(winner)
    /\ best_auc = aucs[FirstMax(aucs)]
    /\ best_model = Some(Pipeline(winner, "run"))
    /\ (TrainerSucceeded => modelFile = File(Pipeline(winner, "run")))

\* C1 witness: a run that succeeded in which a later family ties with the
\* greatest AUC and the earlier one was persisted.
C1_Witness ==
  /\ TrainerSucceeded
  /\ Len(aucs) = Len(ModelNames)
  /\ aucs[1] < aucs[2]
  /\ aucs[3] = aucs[2]
  /\ modelFile = File(Pipeline(ModelNames[2], "run"))

\* C2: in the report a successful run has written, "current_model" is present,
\* names a key of the same report, and that key's entry has an auc and an
\* accuracy that are not null.
C2_CurrentModelIsAKey ==
  TrainerSucceeded =>
    /\ metricsFile.state = "ok"
    /\ LET report == metricsFile.content[1] IN
       /\ report.current_model # None
       /\ report.current_model[1] \in DOMAIN report.entries
       /\ report.entries[report.current_model[1]].auc # None
       /\ report.entries[report.current_model[1]].accuracy # None

\* C2 witness: a written report whose current model is not the last family
\* the loop recorded.
C2_Witness ==
  /\ TrainerSucceeded
  /\ metricsFile.state = "ok"
  /\ metricsFile.content[1].current_model = Some(ModelNames[1])
  /\ DOMAIN metricsFile.content[1].entries = {ModelNames[i] : i \in 1..Len(ModelNames)}

Original(d) ==
  [i \in 1..Len(d) |-> [Contract |-> d[i].Contract, tenure |-> d[i].tenure,
                        MonthlyCharges |-> d[i].MonthlyCharges, Churn |-> d[i].Churn]]

\* Both bucket columns exist.
HasBuckets(d) ==
  \A i \in 1..Len(d) : d[i].TenureBucket # None /\ d[i].MonthlyBucket # None

\* A request was answered in this step.
Answered == lastOp' # lastOp \/ lastResp' # lastResp

\* C3: a Server started without model.pkl (or with one that does not unpickle)
\* or without the dataset fails; a failed Server stays failed and answers
\* nothing; and any response is given by a running Server that holds the
\* pipeline of model.pkl and the dataset of the file.
C3_StartupRefusal ==
  [][ /\ (spc = "down" /\ spc' # "down" /\ (modelFile.state # "ok" \/ ~csvExists)
            => spc' = "failed")
      /\ (spc = "failed" => spc' = "failed" /\ ~Answered)
      /\ (Answered => /\ spc = "running"
                      /\ modelFile.state = "ok"
                      /\ csvExists
                      /\ model = modelFile.content
                      /\ Original(df) = Original(LoadDataset(csvRows)))
    ]_vars

\* C3 witness: the Server failed although model.pkl was there, for want of the
\* dataset, and has answered nothing.
C3_Witness ==
  /\ spc = "failed"
  /\ modelFile.state = "ok"
  /\ ~csvExists
  /\ lastOp = "none"

\* C4: health, dashboard and feature-importance always answer with success.
C4_ReadEndpointsNeverFail ==
  lastOp \in {"health", "dashboard", "feature_importance"} => lastResp.status = 200

\* C5: what the Server serves is what the artifacts of its start give: the
\* pipeline that answers predict and explain is the one loaded at the start,
\* and the successful answers of health, feature-importance and dashboard are
\* those the metrics.json of the start gives.
C5_NoLiveCoupling ==
  /\ (lastOp \in {"predict", "explain"} /\ lastResp.status = 200
        => Some(lastResp.by) = model)
  /\ (lastResp.status = 200 /\ metricsAtStart.state # "partial" =>
        /\ (lastOp = "health" => lastResp = HealthResponse(metricsAtStart))
        /\ (lastOp = "feature_importance"
              => lastResp = FeatureImportanceResponse(metricsAtStart))
        /\ (lastOp = "dashboard" => lastResp = DashboardResponse(df, metricsAtStart)))

\* C7: right after dashboard has answered, a second call gives the same
\* response, although the first added the bucket columns; the same holds of
\* feature-importance.
C7_ReadEndpointsIdempotent ==
  /\ (lastOp = "dashboard" => DashboardResponse(df, metricsFile) = lastResp)
  /\ (lastOp = "feature_importance" => FeatureImportanceResponse(metricsFile) = lastResp)

\* C7 witness: dashboard answered over two rows of different contracts and
\* left the bucket columns behind.
C7_Witness ==
  /\ lastOp = "dashboard"
  /\ lastResp.status = 200
  /\ Len(df) = 2
  /\ df[1].Contract # df[2].Contract
  /\ HasBuckets(df)

\* C8: batch-predict without a "file" part, or with a file without data rows,
\* answers 400 with "No file uploaded", respectively "Uploaded CSV is empty",
\* and neither predictions nor a batch feature importance.
C8_EmptyUploadRejected ==
  lastOp = "batch_predict" /\ (~lastResp.upload.part \/ lastResp.upload.rows = 0) =>
    /\ lastResp.status = 400
    /\ lastResp.error = Some(IF lastResp.upload.part THEN "Uploaded CSV is empty"
                                                     ELSE "No file uploaded")
    /\ lastResp.predictions = None
    /\ lastResp.batch_feature_importance = None

\* A rate is a number of [0, 1].
InUnit(rate) == rate.n > 0 /\ 0 <= rate.sum /\ rate.sum <= rate.n

RECURSIVE Counted(_, _)
\* The number of labels the rates of the keys ks were taken over.
Counted(rates, ks) ==
  IF ks = {} THEN 0
  ELSE LET k == CHOOSE x \in ks : TRUE IN rates[k].n + Counted(rates, ks \ {k})

\* The rows of d with a label.
Labelled(d) == Cardinality({i \in 1..Len(d) : d[i].Churn # None})

\* C9: in a dashboard response the tenure keys are among "0-12", "13-24",
\* "25+" and the monthly keys among "0-50", "51-100", "101+"; every row is in
\* the tenure bucket (<= 12, else <= 24, else 25+) and the monthly bucket
\* (<= 50, else <= 100, else 101+) of its values, and every labelled row is
\* counted in exactly one bucket of each mapping; a "Yes" or "No" label is 1 or
\* 0 after the load; and when every label is 0 or 1, every rate of the three
\* mappings lies in [0, 1].
C9_DashboardAggregates ==
  /\ (spc = "running" =>
        \A i \in 1..Len(df) :
          /\ (csvRows[i].Churn = "Yes" => df[i].Churn = Some(1))
          /\ (csvRows[i].Churn = "No" => df[i].Churn = Some(0)))
  /\ (lastOp = "dashboard" /\ lastResp.status = 200 =>
        LET b == lastResp.body IN
        /\ DOMAIN b.tenure \subseteq {"0-12", "13-24", "25+"}
        /\ DOMAIN b.monthly \subseteq {"0-50", "51-100", "101+"}
        /\ \A i \in 1..Len(df) :
             /\ df[i].TenureBucket =
                  Some(IF df[i].tenure <= 12 THEN "0-12"
                       ELSE IF df[i].tenure <= 24 THEN "13-24" ELSE "25+")
             /\ df[i].MonthlyBucket =
                  Some(IF df[i].MonthlyCharges <= 50 THEN "0-50"
                       ELSE IF df[i].MonthlyCharges <= 100 THEN "51-100" ELSE "101+")
        /\ Counted(b.tenure, DOMAIN b.tenure) = Labelled(df)
        /\ Counted(b.monthly, DOMAIN b.monthly) = Labelled(df)
        /\ ((\A i \in 1..Len(df) : df[i].Churn \in {Some(0), Some(1)}) =>
              /\ \A k \in DOMAIN b.contract : InUnit(b.contract[k])
              /\ \A k \in DOMAIN b.tenure : InUnit(b.tenure[k])
              /\ \A k \in DOMAIN b.monthly : InUnit(b.monthly[k])))

\* C9 witness: a dashboard response over two labelled rows of one contract,
\* one churned and one not, that fall into different tenure buckets.
C9_Witness ==
  /\ lastOp = "dashboard"
  /\ lastResp.status = 200
  /\ Len(df) = 2
  /\ \E k \in DOMAIN lastResp.body.contract :
       lastResp.body.contract[k] = [sum |-> 1, n |-> 2]
  /\ Cardinality(DOMAIN lastResp.body.tenure) = 2

\* C10 as stated: after dashboard and after explain the dataset has the
\* bucket columns, and its original rows and columns are as loaded.
C10_DashboardAndExplainMutate ==
  spc = "running" =>
    /\ (lastOp \in {"dashboard", "explain"} => HasBuckets(df) /\ Len(df) = Len(csvRows))
    /\ Original(df) = Original(LoadDataset(csvRows))

\* C10 amended: while the Server runs, a dashboard request leaves the dataset
\* with the two bucket columns set from tenure and MonthlyCharges, a request to
\* any other endpoint (explain included) leaves the dataset as it was, and no
\* request changes an original row or column.
C10_OnlyDashboardMutates ==
  [][ spc = "running" =>
        /\ Original(df') = Original(df)
        /\ (lastOp' = "dashboard" => df' = DashboardFrame(df) /\ HasBuckets(df'))
        /\ (lastOp' # "dashboard" => df' = df)
    ]_vars

\* C10 witness: explain answered over a dataset that has rows and no bucket
\* columns.
C10_Witness ==
  /\ spc = "running"
  /\ lastOp = "explain"
  /\ Len(df) = 2
  /\ ~HasBuckets(df)
====
